---- MODULE Spec2Model ----
(***************************************************************************)
(* Model of copycode.py: get_project_structure(start_path, max_depth).     *)
(*                                                                         *)
(* Text is modelled as a sequence of one-character strings, so that the    *)
(* string operations of the source (replace, count, in, suffix, basename,  *)
(* join, slicing, sorting) are computed character by character.            *)
(* The three box-drawing characters of the tree rendering are written with *)
(* ASCII stand-ins: "|" for U+2502, "+" for U+251C and "-" for U+2500.     *)
(***************************************************************************)
EXTENDS Integers, Sequences, FiniteSets, TLC

(***************************************************************************)
(* Bounds of the model.                                                    *)
(***************************************************************************)
\* max_depth is drawn from -1 .. MaxDepthArg
MaxDepthArg == 1
\* at most MaxFailures files of the tree fail in getsize/open/read
MaxFailures == 1

(***************************************************************************)
(* Python string primitives.                                               *)
(***************************************************************************)
\* s.startswith(p)
StartsWith(s, p) == Len(p) <= Len(s) /\ SubSeq(s, 1, Len(p)) = p

\* s[i:] with a 1-based index
From(s, i) == SubSeq(s, i, Len(s))

\* sub in s
Contains(s, sub) ==
    \E i \in 1..(Len(s) - Len(sub) + 1) : SubSeq(s, i, i + Len(sub) - 1) = sub

\* s.count(c) for a single character c
Count(s, c) == Cardinality({i \in 1..Len(s) : s[i] = c})

\* s.replace(old, ''), old non-empty: leftmost non-overlapping occurrences
RECURSIVE Replace(_, _)
Replace(s, old) ==
    IF Len(s) < Len(old) \/ Len(old) = 0 THEN s
    ELSE IF StartsWith(s, old) THEN Replace(From(s, Len(old) + 1), old)
    ELSE <<Head(s)>> \o Replace(Tail(s), old)

\* s.rfind(c), as a 1-based index; 0 when c does not occur
RFind(s, c) ==
    IF \E i \in 1..Len(s) : s[i] = c
    THEN CHOOSE i \in 1..Len(s) : s[i] = c /\ \A j \in (i+1)..Len(s) : s[j] # c
    ELSE 0

\* unit * n
RECURSIVE Rep(_, _)
Rep(unit, n) == IF n <= 0 THEN <<>> ELSE unit \o Rep(unit, n - 1)

\* "\n".join(lines)
RECURSIVE JoinLines(_)
JoinLines(lines) ==
    IF lines = <<>> THEN <<>>
    ELSE IF Len(lines) = 1 THEN lines[1]
    ELSE lines[1] \o <<"\n">> \o JoinLines(Tail(lines))

\* str(n) of a natural number
RECURSIVE Digits(_)
Digits(n) ==
    LET d == <<"0", "1", "2", "3", "4", "5", "6", "7", "8", "9">>
    IN  IF n < 10 THEN <<d[n + 1]>> ELSE Digits(n \div 10) \o <<d[(n % 10) + 1]>>

\* the characters in code point order; strings compare by code point
CodeOrder ==
    <<"\n", " ", "'", "(", ")", ",", "-", ".", "/",
      "0", "1", "2", "3", "4", "5", "6", "7", "8", "9", ":",
      "A", "B", "C", "D", "E", "F", "G", "H", "I", "J", "K", "L", "M",
      "N", "O", "P", "Q", "R", "S", "T", "U", "V", "W", "X", "Y", "Z",
      "[", "]", "_",
      "a", "b", "c", "d", "e", "f", "g", "h", "i", "j", "k", "l", "m",
      "n", "o", "p", "q", "r", "s", "t", "u", "v", "w", "x", "y", "z", "|">>

Ord(c) == CHOOSE i \in 1..Len(CodeOrder) : CodeOrder[i] = c

\* a < b for str
RECURSIVE StrLess(_, _)
StrLess(a, b) ==
    IF b = <<>> THEN FALSE
    ELSE IF a = <<>> THEN TRUE
    ELSE IF Head(a) = Head(b) THEN StrLess(Tail(a), Tail(b))
    ELSE Ord(Head(a)) < Ord(Head(b))

(***************************************************************************)
(* os.path and pathlib primitives (POSIX).                                 *)
(***************************************************************************)
SEP == "/"

\* os.path.join(a, b) for a relative b
PathJoin(a, b) ==
    IF a = <<>> \/ a[Len(a)] = SEP THEN a \o b ELSE a \o <<SEP>> \o b

\* os.path.basename(p): what follows the last separator
Basename(p) == From(p, RFind(p, SEP) + 1)

\* pathlib.Path(name).suffix for a bare file name:
\*   i = name.rfind('.'); name[i:] if 0 < i < len(name) - 1 else ''
\* (0-based i; a leading dot or a trailing dot gives no suffix)
PathSuffix(name) ==
    LET i == RFind(name, ".")
    IN  IF 1 < i /\ i < Len(name) THEN From(name, i) ELSE <<>>

(***************************************************************************)
(* The filter policy: the four sets of get_project_structure.              *)
(***************************************************************************)
IGNORED_DIRS ==
    { <<"_", "_", "p", "y", "c", "a", "c", "h", "e", "_", "_">>,
      <<".", "v", "e", "n", "v">>,
      <<"v", "e", "n", "v">>,
      <<"e", "n", "v">>,
      <<"n", "o", "d", "e", "_", "m", "o", "d", "u", "l", "e", "s">>,
      <<".", "g", "i", "t">>,
      <<".", "i", "d", "e", "a">>,
      <<".", "p", "y", "t", "e", "s", "t", "_", "c", "a", "c", "h", "e">>,
      <<".", "v", "s", "c", "o", "d", "e">>,
      <<"b", "u", "i", "l", "d">>,
      <<"d", "i", "s", "t">>,
      <<"t", "a", "r", "g", "e", "t">>,
      <<"m", "i", "g", "r", "a", "t", "i", "o", "n", "s">>,
      <<"c", "o", "v", "e", "r", "a", "g", "e">>,
      <<".", "n", "e", "x", "t">>,
      <<".", "c", "a", "c", "h", "e">>,
      <<".", "h", "u", "s", "k", "y">>,
      <<".", "g", "i", "t", "h", "u", "b">> }

INCLUDED_EXTENSIONS ==
    { <<".", "p", "y">>,
      <<".", "j", "s", "x">>,
      <<".", "t", "s", "x">>,
      <<".", "j", "s">>,
      <<".", "t", "s">>,
      <<".", "c", "s", "s">>,
      <<".", "s", "c", "s", "s">>,
      <<".", "s", "a", "s", "s">>,
      <<".", "h", "t", "m", "l">>,
      <<>>,
      <<".", "y", "m", "l">>,
      <<".", "y", "a", "m", "l">>,
      <<".", "d", "o", "c", "k", "e", "r", "f", "i", "l", "e">>,
      <<".", "j", "s", "o", "n">>,
      <<".", "l", "o", "c", "k">>,
      <<".", "t", "x", "t">>,
      <<".", "c", "o", "n", "f", "i", "g", ".", "j", "s">> }

IGNORED_FILES ==
    { <<"s", "e", "t", "u", "p", "T", "e", "s", "t", "s", ".">>,
      <<"r", "e", "p", "o", "r", "t", "W", "e", "b", "V", "i", "t", "a", "l", "s", ".">>,
      <<".", "t", "e", "s", "t", ".">>,
      <<".", "s", "p", "e", "c", ".">>,
      <<"t", "y", "p", "e", "s", ".", "d", ".", "t", "s">>,
      <<".", "g", "i", "t", "i", "g", "n", "o", "r", "e">> }

IMPORTANT_FILES ==
    { <<"p", "a", "c", "k", "a", "g", "e", ".", "j", "s", "o", "n">>,
      <<"p", "a", "c", "k", "a", "g", "e", "-", "l", "o", "c", "k", ".", "j", "s", "o", "n">>,
      <<"y", "a", "r", "n", ".", "l", "o", "c", "k">>,
      <<"r", "e", "q", "u", "i", "r", "e", "m", "e", "n", "t", "s", ".", "t", "x", "t">>,
      <<"D", "o", "c", "k", "e", "r", "f", "i", "l", "e">>,
      <<"d", "o", "c", "k", "e", "r", "-", "c", "o", "m", "p", "o", "s", "e", ".", "y", "m", "l">>,
      <<"t", "a", "i", "l", "w", "i", "n", "d", ".", "c", "o", "n", "f", "i", "g", ".", "j", "s">>,
      <<"p", "o", "s", "t", "c", "s", "s", ".", "c", "o", "n", "f", "i", "g", ".", "j", "s">> }

\* files larger than this many bytes are not read: 100 * 1024
MAX_SIZE == 102400

(***************************************************************************)
(* The filesystem the function walks.  Directory 0 is the directory that   *)
(* start_path names; directories 1..8 lie below it.  FileContent stands    *)
(* for the decoded text of a file; FileSize is what os.path.getsize        *)
(* returns for it.                                                         *)
(***************************************************************************)
DirName ==
    << <<"a">>,                                                        \* 1
       <<"b">>,                                                        \* 2
       <<"c">>,                                                        \* 3
       <<"s", "r", "c">>,                                              \* 4
       <<"n", "o", "d", "e", "_", "m", "o", "d", "u", "l", "e", "s">>, \* 5
       <<".", "c", "o", "n", "f", "i", "g">>,                          \* 6
       <<"b", "u", "i", "l", "d">>,                                    \* 7
       <<"x">> >>                                                      \* 8

\* b/a, b/a/b, b/a/b/c, b/src, b/node_modules, b/.config, b/src/build,
\* b/node_modules/x
DirParent == <<0, 1, 2, 0, 0, 0, 4, 5>>

SubDirs == DOMAIN DirName
Dirs == {0} \cup SubDirs

FileName ==
    << <<"p", "a", "c", "k", "a", "g", "e", ".", "j", "s", "o", "n">>,                \* 1
       <<".", "e", "n", "v">>,                                                        \* 2
       <<"R", "E", "A", "D", "M", "E", ".", "m", "d">>,                               \* 3
       <<"f", "o", "o", ".", "t", "e", "s", "t", ".", "j", "s">>,                     \* 4
       <<"b", "i", "g", ".", "p", "y">>,                                              \* 5
       <<"e", "d", "g", "e", ".", "p", "y">>,                                         \* 6
       <<"x", ".", "c", "o", "n", "f", "i", "g", ".", "j", "s">>,                     \* 7
       <<"m", "y", ".", "g", "i", "t", "i", "g", "n", "o", "r", "e", ".", "m", "d">>, \* 8
       <<"b", ".", "t", "s">>,                                                        \* 9
       <<"a", ".", "t", "s">>,                                                        \* 10
       <<"Z", "e", "d", ".", "p", "y">>,                                              \* 11
       <<"D", "o", "c", "k", "e", "r", "f", "i", "l", "e">>,                          \* 12
       <<"i", "n", "d", "e", "x", ".", "t", "s">>,                                    \* 13
       <<"n", "o", "t", "e", "s", ".">>,                                              \* 14
       <<"x", ".", "j", "s">>,                                                        \* 15
       <<"y", ".", "j", "s">> >>                                                      \* 16

FileDir  == <<0, 0, 0, 0, 0, 0, 1, 1, 2, 2, 2, 3, 4, 4, 5, 8>>

FileSize == <<10, 12, 20, 5, 102401, 102400, 256, 3, 1, 2, 204800, 0, 10, 4, 7, 7>>

Files == DOMAIN FileName

FileContent(f) == <<"#">> \o Digits(f)

\* the sub-directories of d, and its files in the order the directory
\* happens to list them (not sorted by name)
ChildDirs(d) == {c \in SubDirs : DirParent[c] = d}
DirFiles(d) == SelectSeq([f \in Files |-> f], LAMBDA f : FileDir[f] = d)

\* os.listdir/os.scandir give the entries "in arbitrary order"
Orders(S) ==
    {o \in [1..Cardinality(S) -> S] :
        \A i, j \in 1..Cardinality(S) : i # j => o[i] # o[j]}

\* the forms of start_path that name directory 0: a bare name, the same
\* with a trailing separator, the current directory, a two-component
\* relative path and an absolute path
StartPaths ==
    { <<"b">>, <<"b", "/">>, <<".">>, <<"a", "/", "b">>, <<"/", "b">> }

\* what happens when the file is touched: nothing, os.path.getsize raises
\* OSError, open raises PermissionError (an OSError), or read raises
\* UnicodeDecodeError
Outcomes == {"ok", "getsize_error", "open_error", "decode_error"}

ExceptionOf(kind) ==
    IF kind = "decode_error" THEN "UnicodeDecodeError" ELSE "OSError"

\* str(e)
ErrorMessage(kind) ==
    IF kind = "getsize_error" THEN <<"[", "E", "r", "r", "n", "o", " ", "2", "]">>
    ELSE IF kind = "open_error" THEN <<"[", "E", "r", "r", "n", "o", " ", "1", "3", "]">>
    ELSE <<"'", "u", "t", "f", "-", "8", "'", " ", "c", "o", "d", "e", "c">>

\* os.path.relpath(os.path.join(root, file), start_path): both are made
\* absolute and normalised, so the result is the path below directory 0
RECURSIVE DirRelPath(_)
DirRelPath(d) ==
    IF d = 0 THEN <<>> ELSE PathJoin(DirRelPath(DirParent[d]), DirName[d])

RelPath(f) == PathJoin(DirRelPath(FileDir[f]), FileName[f])

(***************************************************************************)
(* The decisions of get_project_structure.                                 *)
(***************************************************************************)
\* level = root.replace(start_path, '').count(os.sep)
Level(root, sp) == Count(Replace(root, sp), SEP)

\* max_depth != -1 and level > max_depth
Cutoff(md, level) == md # -1 /\ level > md

\* variant: only the leading dot is tested
IsIgnoredDirDotOnly(d) == StartsWith(d, <<".">>)

\* not (d not in IGNORED_DIRS and not d.startswith('.'))
IsIgnoredDir(d) == d \in IGNORED_DIRS \/ StartsWith(d, <<".">>)

\* variant: the name is compared with the entries instead of searched
IsIgnoredFileExact(file) == file \in IGNORED_FILES

\* any(ignore in file for ignore in IGNORED_FILES)
IsIgnoredFile(file) == \E ignore \in IGNORED_FILES : Contains(file, ignore)

\* (Path(file).suffix in INCLUDED_EXTENSIONS) or (file in IMPORTANT_FILES)
IsIncluded(file) ==
    PathSuffix(file) \in INCLUDED_EXTENSIONS \/ file \in IMPORTANT_FILES

\* variant: the limit itself already counts as too large
IsTooLargeAtLimit(file_size) == file_size >= MAX_SIZE

\* file_size > 100 * 1024
IsTooLarge(file_size) == file_size > MAX_SIZE

\* variant: except OSError
CaughtOSErrorOnly(exc) == exc = "OSError"

\* except Exception: every exception class raised by getsize/open/read
Caught(exc) == exc \in {"OSError", "UnicodeDecodeError"}

\* sorted(files), by insertion; files are file ids compared by name
RECURSIVE Insert(_, _)
Insert(f, sorted) ==
    IF sorted = <<>> THEN <<f>>
    ELSE IF StrLess(FileName[f], FileName[Head(sorted)]) THEN <<f>> \o sorted
    ELSE <<Head(sorted)>> \o Insert(f, Tail(sorted))

\* variant: for file in files
Unsorted(files) == files

RECURSIVE SortedFiles(_)
SortedFiles(files) ==
    IF files = <<>> THEN <<>>
    ELSE Insert(Head(files), SortedFiles(Tail(files)))

(***************************************************************************)
(* Rendering.                                                              *)
(***************************************************************************)
BRANCH == <<"+", "-", "-", " ">>

\* indent = '|   ' * level
Indent(level) == Rep(<<"|", " ", " ", " ">>, level)

\* f"{indent[:-4]}+-- {dir_name}/" below the root, dir_name + '/' for it
DirLine(level, root) ==
    LET indent   == Indent(level)
        dir_name == Basename(root)
    IN  IF level > 0
        THEN SubSeq(indent, 1, Len(indent) - 4) \o BRANCH \o dir_name \o <<"/">>
        ELSE dir_name \o <<"/">>

\* f"{indent}+-- {file}"
FileLine(level, file) == Indent(level) \o BRANCH \o file

\* f"{file_size/1024:.1f}": the quotient is exact in binary floating
\* point, and the format rounds it to one decimal, ties to even
KBText(file_size) ==
    LET q == (file_size * 10) \div 1024
        r == (file_size * 10) % 1024
        tenths == IF r > 512 \/ (r = 512 /\ q % 2 = 1) THEN q + 1 ELSE q
    IN  Digits(tenths \div 10) \o <<".">> \o Digits(tenths % 10)

FILE_HEADER == <<"\n", "F", "i", "l", "e", ":", " ">>

\* variant: the notice without the "File:" header
SkippedNoticeNoHeader(f) ==
    << <<"S", "k", "i", "p", "p", "e", "d", " ">> \o FileName[f], <<>> >>

\* [f"\nFile: {file} (skipped - too large, {file_size/1024:.1f}KB)", ""]
SkippedNotice(f) ==
    << FILE_HEADER \o FileName[f]
         \o <<" ", "(", "s", "k", "i", "p", "p", "e", "d", " ", "-", " ",
              "t", "o", "o", " ", "l", "a", "r", "g", "e", ",", " ">>
         \o KBText(FileSize[f]) \o <<"K", "B", ")">>,
       <<>> >>

\* [f"\nFile: {rel_path}", "-" * 40, content, "-" * 40, ""]
ContentBlock(f) ==
    << FILE_HEADER \o RelPath(f),
       Rep(<<"-">>, 40),
       FileContent(f),
       Rep(<<"-">>, 40),
       <<>> >>

\* [f"Error reading {file}: {str(e)}", ""]
ErrorNotice(f, kind) ==
    << <<"E", "r", "r", "o", "r", " ", "r", "e", "a", "d", "i", "n", "g", " ">>
         \o FileName[f] \o <<":", " ">> \o ErrorMessage(kind),
       <<>> >>

(***************************************************************************)
(* The state.                                                              *)
(***************************************************************************)
VARIABLES
    start_path,     \* argument: the text of the root path
    max_depth,      \* argument: -1, or the depth ceiling
    outcome,        \* filesystem: what touching each file does
    touched,        \* filesystem: the files whose outcome has shown
    pc,             \* "walking", "done" (returned) or "raised"
    stack,          \* os.walk: the directories still to yield, <<dir, path>>
    output,         \* the list output
    file_contents,  \* the list file_contents
    full_output,    \* the returned string, <<>> until the function returns
    prev_output,    \* what the previous invocation returned, <<>> if none
    outTag,         \* history: what each element of output is, <<kind, id>>
    fcTag,          \* history: what each element of file_contents is
    opened,         \* history: the files open() was called on
    walkLog,        \* history: <<dir, level, pruned>> per yielded directory
    readable        \* history: output, file_contents and the tags of
                    \* file_contents as they would be with every file readable

vars == <<start_path, max_depth, outcome, touched, pc, stack, output, file_contents,
          full_output, prev_output, outTag, fcTag, opened, walkLog, readable>>

AllOk == [f \in Files |-> "ok"]

Failing(oc) == {f \in Files : oc[f] # "ok"}

(***************************************************************************)
(* The body of the try statement for one included file: the elements it    *)
(* appends to file_contents, whether open() was called and the exception   *)
(* class it raised ("none" if it completed).                               *)
(***************************************************************************)
TryBody(f, kind) ==
    IF kind = "getsize_error"
    THEN [exc |-> ExceptionOf(kind), entries |-> <<>>, tags |-> <<>>, opened |-> {}]
    ELSE IF IsTooLarge(FileSize[f])
    THEN [exc |-> "none", entries |-> SkippedNotice(f),
          tags |-> << <<"skipped", f>>, <<"blank", f>> >>, opened |-> {}]
    ELSE IF kind \in {"open_error", "decode_error"}
    THEN [exc |-> ExceptionOf(kind), entries |-> <<>>, tags |-> <<>>, opened |-> {f}]
    ELSE [exc |-> "none", entries |-> ContentBlock(f),
          tags |-> << <<"header", f>>, <<"sep", f>>, <<"body", f>>,
                      <<"sep", f>>, <<"blank", f>> >>,
          opened |-> {f}]

(***************************************************************************)
(* The tree is fixed, so what the loop computes from a file's name, size   *)
(* and outcome alone is tabulated once per file.                           *)
(***************************************************************************)
Ignored  == [f \in Files |-> IsIgnoredFile(FileName[f])]
Included == [f \in Files |-> IsIncluded(FileName[f])]
Tried    == [f \in Files |-> [kind \in Outcomes |-> TryBody(f, kind)]]
Handled  == [f \in Files |-> [kind \in Outcomes \ {"ok"} |->
                [caught |-> Caught(ExceptionOf(kind)),
                 entries |-> ErrorNotice(f, kind)]]]
Listing  == [d \in Dirs |-> SortedFiles(DirFiles(d))]

\* dirs[:] = [d for d in dirs if d not in IGNORED_DIRS and not d.startswith('.')]
\* keeps the order of the listing, which is arbitrary: the values dirs can
\* have after the filter are the orders of the directories it keeps
KeptDirs == [d \in Dirs |->
               Orders({c \in ChildDirs(d) : ~IsIgnoredDir(DirName[c])})]

\* The filesystem is fixed before the call, but what touching a file does
\* shows only when the loop reaches it: the outcomes of the files in cand
\* are settled on first touch, with at most n more failures than oc has
RECURSIVE Reveal(_, _, _)
Reveal(oc, cand, n) ==
    IF n <= 0 \/ cand = {} THEN {oc}
    ELSE LET fewer == Reveal(oc, cand, n - 1)
         IN  fewer \cup {[o EXCEPT ![f] = k] :
                           o \in fewer, f \in cand, k \in Outcomes \ {"ok"}}

\* the files of directory d that the loop touches
Touches == [d \in Dirs |->
              {f \in Files : FileDir[f] = d /\ ~Ignored[f] /\ Included[f]}]

(***************************************************************************)
(* for file in sorted(files): ... with the lists built so far in acc.      *)
(* acc.raised becomes TRUE when an exception leaves the loop.              *)
(***************************************************************************)
RECURSIVE FileLoop(_, _, _, _)
FileLoop(files, level, oc, acc) ==
    IF files = <<>> THEN acc
    ELSE
      LET f == Head(files)
      IN  IF Ignored[f] THEN FileLoop(Tail(files), level, oc, acc)
          ELSE IF ~Included[f] THEN FileLoop(Tail(files), level, oc, acc)
          ELSE
            LET t == Tried[f][oc[f]]
                listed == [acc EXCEPT
                             !.out    = Append(@, FileLine(level, FileName[f])),
                             !.outTag = Append(@, <<"file", f>>),
                             !.opened = @ \cup t.opened]
            IN  IF t.exc = "none"
                THEN FileLoop(Tail(files), level, oc,
                        [listed EXCEPT !.fc = @ \o t.entries, !.fcTag = @ \o t.tags])
                ELSE IF Handled[f][oc[f]].caught
                THEN FileLoop(Tail(files), level, oc,
                        [listed EXCEPT
                           !.fc    = @ \o Handled[f][oc[f]].entries,
                           !.fcTag = @ \o << <<"error", f>>, <<"blank", f>> >>])
                ELSE [listed EXCEPT !.raised = TRUE]

EmptyAcc ==
    [out |-> <<>>, outTag |-> <<>>, fc |-> <<>>, fcTag |-> <<>>,
     opened |-> {}, raised |-> FALSE]

(***************************************************************************)
(* Init: the lists as lines 54-55 leave them, os.walk about to yield       *)
(* start_path.                                                             *)
(***************************************************************************)
Init ==
    /\ start_path \in StartPaths
    /\ max_depth \in -1..MaxDepthArg
    /\ outcome = AllOk
    /\ touched = {}
    /\ pc = "walking"
    /\ stack = << <<0, start_path>> >>
    /\ output = << <<"D", "i", "r", "e", "c", "t", "o", "r", "y", " ",
                     "S", "t", "r", "u", "c", "t", "u", "r", "e", ":">> >>
    /\ file_contents = << <<"\n", "F", "i", "l", "e", " ", "C", "o", "n", "t",
                            "e", "n", "t", "s", ":", "\n">> >>
    /\ full_output = <<>>
    /\ prev_output = <<>>
    /\ outTag = << <<"title", 0>> >>
    /\ fcTag = << <<"title", 0>> >>
    /\ opened = {}
    /\ walkLog = <<>>
    /\ readable = [out |-> output, fc |-> file_contents, fcTag |-> fcTag]

(***************************************************************************)
(* One iteration of the os.walk loop that hits the depth cutoff:           *)
(* dirs.clear(); continue                                                  *)
(***************************************************************************)
PruneDir ==
    /\ pc = "walking"
    /\ stack # <<>>
    /\ LET d     == Head(stack)[1]
           root  == Head(stack)[2]
           level == Level(root, start_path)
       IN  /\ Cutoff(max_depth, level)
           /\ stack' = Tail(stack)
           /\ walkLog' = Append(walkLog, <<d, level, TRUE>>)
    /\ UNCHANGED <<start_path, max_depth, outcome, touched, pc, output,
                   file_contents, full_output, prev_output, outTag, fcTag,
                   opened, readable>>

(***************************************************************************)
(* One iteration of the os.walk loop below the cutoff: filter dirs, emit   *)
(* the directory's line, then its files.  os.walk then descends into the   *)
(* directories left in dirs, in their order, before any other directory.   *)
(***************************************************************************)
VisitDir ==
    /\ pc = "walking"
    /\ stack # <<>>
    /\ LET d     == Head(stack)[1]
           root  == Head(stack)[2]
           level == Level(root, start_path)
           first == [EmptyAcc EXCEPT !.out = <<DirLine(level, root)>>,
                                     !.outTag = << <<"dir", d>> >>]
           ok    == FileLoop(Listing[d], level, AllOk, first)
       IN  /\ ~Cutoff(max_depth, level)
           /\ \E oc \in Reveal(outcome, Touches[d] \ touched,
                               MaxFailures - Cardinality(Failing(outcome))) :
                LET acc == FileLoop(Listing[d], level, oc, first)
                IN  /\ outcome' = oc
                    /\ pc' = IF acc.raised THEN "raised" ELSE pc
                    /\ output' = output \o acc.out
                    /\ outTag' = outTag \o acc.outTag
                    /\ file_contents' = file_contents \o acc.fc
                    /\ fcTag' = fcTag \o acc.fcTag
                    /\ opened' = opened \cup acc.opened
           /\ touched' = touched \cup Touches[d]
           /\ walkLog' = Append(walkLog, <<d, level, FALSE>>)
           /\ readable' = [out   |-> readable.out \o ok.out,
                           fc    |-> readable.fc \o ok.fc,
                           fcTag |-> readable.fcTag \o ok.fcTag]
           /\ \E dirs \in KeptDirs[d] :
                LET next == [i \in 1..Len(dirs) |->
                               <<dirs[i], PathJoin(root, DirName[dirs[i]])>>]
                IN  stack' = IF pc' = "raised" THEN <<>> ELSE next \o Tail(stack)
    /\ UNCHANGED <<start_path, max_depth, full_output, prev_output>>

(***************************************************************************)
(* os.walk is exhausted: full_output = "\n".join(output + file_contents)   *)
(***************************************************************************)
Finish ==
    /\ pc = "walking"
    /\ stack = <<>>
    /\ full_output' = JoinLines(output \o file_contents)
    /\ pc' = "done"
    /\ UNCHANGED <<start_path, max_depth, outcome, touched, stack, output,
                   file_contents, prev_output, outTag, fcTag, opened, walkLog,
                   readable>>

(***************************************************************************)
(* The caller invokes the function again with the same arguments on the    *)
(* unmodified tree.                                                        *)
(***************************************************************************)
Reinvoke ==
    /\ pc = "done"
    /\ prev_output' = full_output
    /\ pc' = "walking"
    /\ stack' = << <<0, start_path>> >>
    /\ output' = <<output[1]>>
    /\ file_contents' = <<file_contents[1]>>
    /\ full_output' = <<>>
    /\ outTag' = <<outTag[1]>>
    /\ fcTag' = <<fcTag[1]>>
    /\ opened' = {}
    /\ walkLog' = <<>>
    /\ readable' = [out |-> <<output[1]>>, fc |-> <<file_contents[1]>>,
                    fcTag |-> <<fcTag[1]>>]
    /\ UNCHANGED <<start_path, max_depth, outcome, touched>>

Next == PruneDir \/ VisitDir \/ Finish

Spec == Init /\ [][Next]_vars

NextTwice == PruneDir \/ VisitDir \/ Finish \/ Reinvoke

SpecTwice == Init /\ [][NextTwice]_vars

(***************************************************************************)
(* Vocabulary of the properties.                                           *)
(***************************************************************************)
\* number of directories between d and directory 0
RECURSIVE Depth(_)
Depth(d) == IF d = 0 THEN 0 ELSE 1 + Depth(DirParent[d])

\* d is a or lies beneath a
RECURSIVE Under(_, _)
Under(d, a) == d = a \/ (d # 0 /\ Under(DirParent[d], a))

\* the files that have a structure line, in the order of the lines
ListedSeq ==
    LET tags == SelectSeq(outTag, LAMBDA t : t[1] = "file")
    IN  [i \in 1..Len(tags) |-> tags[i][2]]

ListedFiles == {ListedSeq[i] : i \in 1..Len(ListedSeq)}

\* the files that have an entry in the content blocks, entry by entry
EntrySeq(tags) ==
    LET firsts == SelectSeq(tags, LAMBDA t : t[1] \in {"header", "skipped", "error"})
    IN  [i \in 1..Len(firsts) |-> firsts[i][2]]

FilesTagged(kind) == {fcTag[i][2] : i \in {j \in 1..Len(fcTag) : fcTag[j][1] = kind}}

NormalFiles  == FilesTagged("header")
SkippedFiles == FilesTagged("skipped")
ErrorFiles   == FilesTagged("error")

\* the elements a list holds for file f
EntriesOf(list, tags, f) ==
    LET at == SelectSeq([i \in 1..Len(tags) |-> i],
                        LAMBDA i : tags[i][1] # "title" /\ tags[i][2] = f)
    IN  [k \in 1..Len(at) |-> list[at[k]]]

\* the elements a list holds for the title and the files outside S, in order
ElementsOutside(list, tags, S) ==
    LET at == SelectSeq([i \in 1..Len(tags) |-> i],
                        LAMBDA i : tags[i][1] = "title" \/ tags[i][2] \notin S)
    IN  [k \in 1..Len(at) |-> list[at[k]]]

\* the directories os.walk yielded, and those yielded below the cutoff
YieldedDirs == {walkLog[i][1] : i \in 1..Len(walkLog)}
VisitedDirs == {walkLog[i][1] : i \in {j \in 1..Len(walkLog) : ~walkLog[j][3]}}

\* the directories that have a line in output
DirsWithLine == {outTag[i][2] : i \in {j \in 1..Len(outTag) : outTag[j][1] = "dir"}}

\* the files that have any element in file_contents
ContentFiles == {fcTag[i][2] : i \in 2..Len(fcTag)}

\* the child directories the filter names, and all that lies beneath them
IgnoredChildren ==
    {c \in SubDirs : DirName[c] \in IGNORED_DIRS \/ Head(DirName[c]) = "."}
DirsBeneathIgnored == {d \in Dirs : \E c \in IgnoredChildren : Under(d, c)}
FilesBeneathIgnored == {f \in Files : FileDir[f] \in DirsBeneathIgnored}

\* the files whose name contains an IGNORED_FILES entry
SubstringNamed ==
    {f \in Files : \E ignore \in IGNORED_FILES : Contains(FileName[f], ignore)}

\* the files whose name passes the substring exclusion and the inclusion test
EligibleFiles ==
    {f \in Files : ~IsIgnoredFile(FileName[f]) /\ IsIncluded(FileName[f])}

\* a line of the returned text starts with "File:"
IsFileHeader(element) == StartsWith(element, <<"\n", "F", "i", "l", "e", ":">>)

HeaderCount ==
    Cardinality({i \in 1..Len(file_contents) : IsFileHeader(file_contents[i])})

(***************************************************************************)
(* C1                                                                      *)
(***************************************************************************)
\* C1 (as stated): whatever happens to each file, the number of "File:"
\* header lines in file_contents equals the number of file entries in the
\* structure lines.
C1_HeadersEqualEntries == HeaderCount = Len(ListedSeq)

\* C1 (amended): the number of "File:" header lines equals the number of
\* file entries in the structure lines whose size query, open and decode
\* raised nothing (read normally or skipped as too large); a listed file
\* gets an "Error reading" notice, which has no "File:" header, only when
\* touching it failed.
C1_HeadersEqualUnfailedEntries ==
    LET listed  == ListedFiles
        errors  == ErrorFiles
        headers == HeaderCount
    IN  /\ headers = Cardinality(listed \ errors)
        /\ Len(ListedSeq) = Cardinality(listed)
        /\ \A f \in errors : f \in listed /\ outcome[f] # "ok"
        /\ outcome = AllOk => headers = Len(ListedSeq)

\* a finished run with a normal block, a too-large notice and an error notice
C1_Witness ==
    /\ pc = "done"
    /\ NormalFiles # {}
    /\ SkippedFiles # {}
    /\ ErrorFiles # {}

(***************************************************************************)
(* C2                                                                      *)
(***************************************************************************)
\* C2: with max_depth >= 0, for every form of start_path, only directories
\* whose true depth below the root is <= max_depth contribute a directory
\* line or file lines; with max_depth = 0 the only directory entry is the
\* root's.
C2_OnlyDirsWithinDepth ==
    max_depth >= 0 =>
        /\ \A d \in DirsWithLine : Depth(d) <= max_depth
        /\ \A f \in ListedFiles : Depth(FileDir[f]) <= max_depth
        /\ max_depth = 0 => DirsWithLine \subseteq {0}

(***************************************************************************)
(* C3                                                                      *)
(***************************************************************************)
\* the extension as the specification defines it: the suffix starting at
\* the last '.', or the empty string when the name has no '.'
SuffixFromLastDot(name) ==
    IF RFind(name, ".") = 0 THEN <<>> ELSE From(name, RFind(name, "."))

\* C3: in a visited directory, a file that survives the substring exclusion
\* is listed (structure line and content entry) exactly when its extension,
\* the suffix from the last '.', is in INCLUDED_EXTENSIONS or its name is in
\* IMPORTANT_FILES.
C3_ListedIffExtensionOrImportant ==
    \A f \in Files :
        (FileDir[f] \in VisitedDirs /\ ~IsIgnoredFile(FileName[f])) =>
            ((f \in ListedFiles /\ f \in ContentFiles)
               <=> (\/ SuffixFromLastDot(FileName[f]) \in INCLUDED_EXTENSIONS
                    \/ FileName[f] \in IMPORTANT_FILES))

(***************************************************************************)
(* C4                                                                      *)
(***************************************************************************)
\* C4: a file whose name contains an IGNORED_FILES entry anywhere never
\* gets a structure line or a content entry and is never opened, whatever
\* its extension.
C4_SubstringExcluded ==
    /\ SubstringNamed \cap ListedFiles = {}
    /\ SubstringNamed \cap ContentFiles = {}
    /\ SubstringNamed \cap opened = {}

\* the directories of foo.test.js and my.gitignore.md were visited and
\* other files of theirs were listed
C4_Witness ==
    /\ pc = "done"
    /\ {0, 1} \subseteq VisitedDirs
    /\ {1, 7} \subseteq ListedFiles

(***************************************************************************)
(* C5                                                                      *)
(***************************************************************************)
\* C5 (as stated): an included file is opened and emitted in a normal
\* content block if and only if its size is <= 102400 bytes.
C5_NormalIffWithinLimit ==
    \A f \in ListedFiles :
        (f \in opened /\ f \in NormalFiles) <=> FileSize[f] <= MAX_SIZE

\* C5 (amended): for an included file whose size query succeeds, open() is
\* called if and only if its size is <= 102400 bytes, and the body is
\* emitted in a normal content block if and only if, in addition, opening
\* and decoding succeed; a file of 102401 bytes or more is never opened and
\* gets the skipped-too-large notice reporting its size in KB, and the
\* remaining files of its directory are still processed.
C5_OpenedIffWithinLimit ==
    LET listed  == ListedFiles
        normal  == NormalFiles
        skipped == SkippedFiles
        listedDirs == {FileDir[f] : f \in listed}
    IN
    /\ \A g \in EligibleFiles : FileDir[g] \in listedDirs => g \in listed
    /\ \A f \in listed :
           outcome[f] # "getsize_error" =>
             /\ f \in opened <=> FileSize[f] <= MAX_SIZE
             /\ f \in normal <=> (FileSize[f] <= MAX_SIZE /\ outcome[f] = "ok")
             /\ FileSize[f] >= MAX_SIZE + 1 =>
                  /\ f \in skipped
                  /\ EntriesOf(file_contents, fcTag, f) =
                       << <<"\n", "F", "i", "l", "e", ":", " ">> \o FileName[f]
                            \o <<" ", "(", "s", "k", "i", "p", "p", "e", "d", " ",
                                 "-", " ", "t", "o", "o", " ", "l", "a", "r", "g",
                                 "e", ",", " ">>
                            \o KBText(FileSize[f]) \o <<"K", "B", ")">>,
                          <<>> >>

\* big.py (102401 bytes) was skipped as "100.0KB", edge.py (102400 bytes)
\* and package.json, which sorts after both, were read normally
C5_Witness ==
    /\ pc = "done"
    /\ 5 \in SkippedFiles /\ 5 \notin opened
    /\ KBText(FileSize[5]) = <<"1", "0", "0", ".", "0">>
    /\ {6, 1} \subseteq NormalFiles \cap opened

(***************************************************************************)
(* C6                                                                      *)
(***************************************************************************)
\* C6: a child directory whose name is in IGNORED_DIRS or begins with '.'
\* is never yielded by the walk, and neither it nor any directory or file
\* beneath it appears in the structure lines or the content blocks; the
\* root's own entry is emitted whatever its name.
C6_IgnoredDirsNeverEntered ==
    /\ DirsBeneathIgnored \cap YieldedDirs = {}
    /\ DirsBeneathIgnored \cap DirsWithLine = {}
    /\ FilesBeneathIgnored \cap ListedFiles = {}
    /\ FilesBeneathIgnored \cap ContentFiles = {}
    /\ FilesBeneathIgnored \cap opened = {}
    /\ Len(output) >= 2 =>
         /\ outTag[2] = <<"dir", 0>>
         /\ output[2] = Basename(start_path) \o <<"/">>

\* an unlimited walk from "." ended: the root's entry is "./", src (the
\* parent of build) and a were visited
C6_Witness ==
    /\ pc = "done"
    /\ max_depth = -1
    /\ start_path = <<".">>
    /\ output[2] = <<".", "/">>
    /\ {0, 1, 2, 3, 4} \subseteq VisitedDirs

(***************************************************************************)
(* C7                                                                      *)
(***************************************************************************)
\* C7: a failure of getsize, open or decode never leaves the function: the
\* failing file keeps its structure line and gets the error notice with the
\* underlying message, and the structure lines and the content entries of
\* every other file are what they would be with every file readable.
C7_FailuresStayInline ==
    LET listed == ListedFiles
        raises == {f \in listed : \/ outcome[f] = "getsize_error"
                                  \/ (outcome[f] # "ok" /\ FileSize[f] <= MAX_SIZE)}
    IN  /\ pc \in {"walking", "done"}
        /\ pc = "done" => full_output # <<>>
        /\ output = readable.out
        /\ EntrySeq(fcTag) = EntrySeq(readable.fcTag)
        /\ ErrorFiles = raises
        /\ \A f \in raises :
             EntriesOf(file_contents, fcTag, f) =
               << <<"E", "r", "r", "o", "r", " ", "r", "e", "a", "d", "i", "n", "g", " ">>
                    \o FileName[f] \o <<":", " ">> \o ErrorMessage(outcome[f]),
                  <<>> >>
        /\ ElementsOutside(file_contents, fcTag, raises)
             = ElementsOutside(readable.fc, readable.fcTag, raises)

\* a run returned although a file failed to decode, and files after the
\* failing one, in its directory and in later directories, have entries
C7_Witness ==
    /\ pc = "done"
    /\ \E f \in ErrorFiles :
         /\ outcome[f] = "decode_error"
         /\ \E i, j, k \in 1..Len(fcTag) :
              /\ i < j /\ j < k
              /\ fcTag[i] = <<"error", f>>
              /\ fcTag[j][1] = "header" /\ FileDir[fcTag[j][2]] = FileDir[f]
              /\ fcTag[k][1] = "header" /\ FileDir[fcTag[k][2]] # FileDir[f]

(***************************************************************************)
(* C8                                                                      *)
(***************************************************************************)
\* the structure tags from some line on, read after the lines of the
\* directories in seen, the last of them dir's, and last the file of the
\* line before (0 after a directory line): a directory's line comes after
\* its parent's; a file's line belongs to the directory of the last
\* directory line and its name is greater than that of the file before it
RECURSIVE InWalkOrder(_, _, _, _)
InWalkOrder(tags, seen, dir, last) ==
    IF tags = <<>> THEN TRUE
    ELSE LET kind == Head(tags)[1]
             id   == Head(tags)[2]
         IN  IF kind = "dir"
             THEN /\ id = 0 \/ DirParent[id] \in seen
                  /\ id \notin seen
                  /\ InWalkOrder(Tail(tags), seen \cup {id}, id, 0)
             ELSE /\ kind = "file"
                  /\ FileDir[id] = dir /\ dir \in seen
                  /\ last # 0 => StrLess(FileName[last], FileName[id])
                  /\ InWalkOrder(Tail(tags), seen, dir, id)

\* C8: every file with a structure line has exactly one entry in the
\* content blocks, the files of the content blocks come in the order of the
\* structure lines, a directory's line comes after its parent's, the file
\* lines of a directory follow its line, and they are in lexical order.
C8_OneEntryEachInOrder ==
    /\ EntrySeq(fcTag) = ListedSeq
    /\ Cardinality(ListedFiles) = Len(ListedSeq)
    /\ InWalkOrder(Tail(outTag), {}, 0, 0)

\* a finished walk that listed Zed.py, a.ts and b.ts of directory a/b, which
\* the filesystem lists as b.ts, a.ts, Zed.py
C8_Witness ==
    /\ pc = "done"
    /\ \E i \in 1..(Len(ListedSeq) - 2) :
         /\ ListedSeq[i] = 11 /\ ListedSeq[i + 1] = 10 /\ ListedSeq[i + 2] = 9
    /\ Len(EntrySeq(fcTag)) >= 8

C10_LevelIsDepth ==
    \A i \in 1..Len(walkLog) : walkLog[i][2] = Depth(walkLog[i][1])

====
